---- MODULE Spec2Model ----
(***************************************************************************)
(* A model of pubmetric (src/pubmetric.py, src/config.py): the name        *)
(* normalisation helpers, the two first-author tests (PaperSummary and     *)
(* PaperAbstract), AuthorSearch.assess_trainee and the loop and export of  *)
(* main.                                                                   *)
(*                                                                         *)
(* Text is modelled as a sequence of characters; a character is a string   *)
(* token ("a", "L", " ", "-" ...), the accented letters being the tokens   *)
(* "e_acute" / "E_acute" and the combining mark of their NFD form the      *)
(* token "combining_acute".  The PubMed service is the environment: its    *)
(* answers are drawn from the pools below.  It answers a search with a     *)
(* count and a cached result set, and the two fetches with one summary and *)
(* one MedlineCitation for every record of that set; every summary lists   *)
(* at least one author (the search term always names the trainee as        *)
(* [Author]).  The mentor and the location of a row only shape the search  *)
(* term, whose answer is the environment's choice, and are left out; the   *)
(* roster rows carry a last name and a non-empty first name.               *)
(***************************************************************************)
EXTENDS Integers, Sequences, FiniteSets, TLC

(***************************************************************************)
(* Bounds of the model.                                                    *)
(***************************************************************************)
\* rows in the roster read by main
MaxRows == 2
\* records the service returns for one search
MaxPapers == 2
\* Author elements in one full record examined on its own
MaxAuthors == 3
\* authors in one summary examined on its own
MaxSummaryAuthors == 2

(***************************************************************************)
(* Characters.                                                             *)
(***************************************************************************)
LowerLetters == {"a", "e", "i", "j", "k", "l", "n", "o", "r", "u", "w"}

UpperLetters == {"A", "J", "K", "L", "R", "W"}

Digits == {"0", "1", "2", "5"}

\* str.isspace for the characters of the model
IsSpace(c) == c = " "

\* str.lower on one character
LowerChar(c) ==
    CASE c = "A" -> "a"
      [] c = "J" -> "j"
      [] c = "K" -> "k"
      [] c = "L" -> "l"
      [] c = "R" -> "r"
      [] c = "W" -> "w"
      [] c = "E_acute" -> "e_acute"
      [] OTHER -> c

\* unicodedata.normalize('NFD', c) on one character
NFDChar(c) ==
    CASE c = "e_acute" -> <<"e", "combining_acute">>
      [] c = "E_acute" -> <<"E", "combining_acute">>
      [] OTHER -> <<c>>

\* the characters text.encode('ascii', 'ignore') drops
IsAscii(c) == c \notin {"e_acute", "E_acute", "combining_acute"}

\* the class [0-9a-zA-Z] of the regular expression in flatten_name
IsAlnum(c) == c \in LowerLetters \cup UpperLetters \cup Digits \cup {"E"}

(***************************************************************************)
(* Text helpers.                                                           *)
(***************************************************************************)
RECURSIVE LStrip(_)
\* str.lstrip(): drop leading whitespace
LStrip(s) ==
    IF s = <<>> THEN <<>>
    ELSE IF IsSpace(Head(s)) THEN LStrip(Tail(s)) ELSE s

RECURSIVE RStrip(_)
\* str.rstrip(): drop trailing whitespace
RStrip(s) ==
    IF s = <<>> THEN <<>>
    ELSE IF IsSpace(s[Len(s)]) THEN RStrip(SubSeq(s, 1, Len(s) - 1)) ELSE s

\* str.strip()
Strip(s) == RStrip(LStrip(s))

\* str.lower()
Lower(s) == [i \in 1..Len(s) |-> LowerChar(s[i])]

RECURSIVE NFD(_)
\* unicodedata.normalize('NFD', text)
NFD(s) == IF s = <<>> THEN <<>> ELSE NFDChar(Head(s)) \o NFD(Tail(s))

RECURSIVE EncodeAsciiIgnore(_)
\* text.encode('ascii', 'ignore').decode('utf-8')
EncodeAsciiIgnore(s) ==
    IF s = <<>> THEN <<>>
    ELSE IF IsAscii(Head(s)) THEN <<Head(s)>> \o EncodeAsciiIgnore(Tail(s))
         ELSE EncodeAsciiIgnore(Tail(s))

RECURSIVE RemoveNonAlnum(_)
\* re.sub('[^0-9a-zA-Z]', '', name)
RemoveNonAlnum(s) ==
    IF s = <<>> THEN <<>>
    ELSE IF IsAlnum(Head(s)) THEN <<Head(s)>> \o RemoveNonAlnum(Tail(s))
         ELSE RemoveNonAlnum(Tail(s))

\* s[:n] for n >= 0
Slice(s, n) == SubSeq(s, 1, IF n < Len(s) THEN n ELSE Len(s))

\* the Python test  a in b  on two strings
IsSubstring(a, b) ==
    \E i \in 0..(Len(b) - Len(a)) : SubSeq(b, i + 1, i + Len(a)) = a

(***************************************************************************)
(* format_name, strip_accents, flatten_name, names_match.                  *)
(***************************************************************************)
format_name(last, first, with_initial) ==
    IF with_initial THEN Strip(last) \o <<" ">> \o <<Strip(first)[1]>>
    ELSE Strip(last)

strip_accents(text) == EncodeAsciiIgnore(NFD(text))

flatten_name(name) == RemoveNonAlnum(strip_accents(Lower(Strip(name))))

names_match(name1, name2) == flatten_name(name1) = flatten_name(name2)

(***************************************************************************)
(* PaperSummary: data is one entry of the ESummary result,                 *)
(*   [authors |-> <<[name |-> text], ...>>, pubtype |-> <<tag, ...>>,      *)
(*    source |-> title, uid |-> pmid, articleids |-> <<...>>].             *)
(***************************************************************************)
\* the Python test  x in list
InList(x, list) == \E i \in 1..Len(list) : list[i] = x

PaperSummary_is_review(data) == InList("Review", data.pubtype)

\* lines 272-274 with the slice taken at the length of the flattened name
PaperSummary_is_first_author_flat_length(data, author) ==
    LET standard_author == flatten_name(author)
        first_listed_author == Slice(data.authors[1].name, Len(standard_author))
    IN  flatten_name(first_listed_author) = standard_author

\* lines 272-274
PaperSummary_is_first_author(data, author) ==
    LET standard_author == flatten_name(author)
        first_listed_author == Slice(data.authors[1].name, Len(author))
    IN  flatten_name(first_listed_author) = standard_author

PaperSummary_journal_title(data) == data.source

(***************************************************************************)
(* PaperAbstract: data is a MedlineCitation, modelled by the sequence of   *)
(* its Author elements in document order.  An Author element is            *)
(*   [attrib |-> dictionary of XML attributes,                             *)
(*    children |-> <<[tag |-> name, is_none |-> BOOLEAN, text |-> text]>>] *)
(* where is_none says that the child's .text is None.                      *)
(***************************************************************************)
\* the comprehension of line 305 without its filter
TextIsAnything(child) == TRUE

\* the truth value of a.text: neither None nor the empty string
TextIsTruthy(child) == ~child.is_none /\ child.text # <<>>

\* {a.tag: a.text.strip() for a in author if a.text}: a later child with
\* the same tag replaces an earlier one
AuthorDict(author) ==
    LET kept == SelectSeq(author.children, TextIsTruthy)
        tags == {kept[i].tag : i \in 1..Len(kept)}
        last(t) == CHOOSE i \in 1..Len(kept) :
                       /\ kept[i].tag = t
                       /\ \A j \in (i + 1)..Len(kept) : kept[j].tag # t
    IN  [t \in tags |-> Strip(kept[last(t)].text)]

\* {**attribs, **author_dict}
MergeDicts(attribs, author_dict) == author_dict @@ attribs

RECURSIVE PaperAbstract_extract_authorship(_)
PaperAbstract_extract_authorship(data) ==
    IF data = <<>> THEN <<>>
    ELSE LET author == Head(data)
             attribs == author.attrib
             author_dict == AuthorDict(author)
             rest == PaperAbstract_extract_authorship(Tail(data))
         IN  IF "LastName" \in DOMAIN author_dict
             THEN <<MergeDicts(attribs, author_dict)>> \o rest
             ELSE rest

\* the list comprehension of is_first_author
MatchingAuthors(author_list, standard_author) ==
    LET Matches(a) == IsSubstring(flatten_name(a["LastName"]), standard_author)
    IN  SelectSeq(author_list, Matches)

\* line 321 testing only for no match
NoMatch(matching_authors) == Len(matching_authors) = 0

\* line 321
NotExactlyOne(matching_authors) == Len(matching_authors) # 1

\* line 326 looking among the values of the dictionary
is_co_first_in_values(matching_author) ==
    \E key \in DOMAIN matching_author : matching_author[key] = <<"EqualContrib">>

\* line 326
is_co_first(matching_author) == "EqualContrib" \in DOMAIN matching_author

\* lines 315-327
PaperAbstract_is_first_author(data, author) ==
    LET standard_author == flatten_name(author)
        author_list == PaperAbstract_extract_authorship(data)
        matching_authors == MatchingAuthors(author_list, standard_author)
    IN  IF NotExactlyOne(matching_authors) THEN FALSE
        ELSE LET is_listed_first == author_list[1] = matching_authors[1]
             IN  is_listed_first \/ is_co_first(matching_authors[1])

(***************************************************************************)
(* Pools the environment draws from.                                       *)
(***************************************************************************)
\* roster rows (LastName, FirstName as typed in the CSV)
Row_Li == [LastName |-> <<"L", "i", " ">>, FirstName |-> <<"J", "o">>]

Row_Re == [LastName |-> <<"R", "e_acute">>, FirstName |-> <<" ", "A", "n">>]

Row_ONeil == [LastName |-> <<"O", "'", "N", "e", "i", "l">>, FirstName |-> <<"E">>]

name_LiJ == <<"L", "i", " ", "J">>

name_LiJA == <<"L", "i", " ", "J", "A">>

name_LiK == <<"L", "i", " ", "K">>

name_WuK == <<"W", "u", " ", "K">>

name_ReA == <<"R", "e", " ", "A">>

name_ReAL == <<"R", "e_acute", " ", "A", "L">>

name_L == <<"L">>

Elem(attrib, children) == [attrib |-> attrib, children |-> children]

Child(tag, text) == [tag |-> tag, is_none |-> FALSE, text |-> text]

EmptyChild(tag) == [tag |-> tag, is_none |-> TRUE, text |-> <<>>]

Valid == [ValidYN |-> <<"Y">>]

ValidEqual(v) == [ValidYN |-> <<"Y">>, EqualContrib |-> <<v>>]

Author_Li ==
    Elem(Valid, <<Child("LastName", <<"L", "i">>), Child("ForeName", <<"J", "o">>)>>)

Author_LiEqual ==
    Elem(ValidEqual("Y"),
         <<Child("LastName", <<"L", "i">>), Child("ForeName", <<"J", "o">>)>>)

Author_Wu ==
    Elem(Valid, <<Child("LastName", <<" ", "W", "u">>), Child("ForeName", <<"K">>)>>)

Author_WuEqual ==
    Elem(ValidEqual("Y"), <<Child("LastName", <<"W", "u">>), Child("ForeName", <<"K">>)>>)

Author_Re ==
    Elem(Valid, <<Child("LastName", <<"R", "e_acute">>), Child("ForeName", <<"A", "n">>)>>)

Author_Collective ==
    Elem(Valid, <<Child("CollectiveName", <<"W", "u", "L", "i">>)>>)

Author_NoText ==
    Elem(ValidEqual("Y"), <<EmptyChild("LastName"), Child("ForeName", <<"J", "o">>)>>)

Author_Blank ==
    Elem(Valid, <<Child("LastName", <<" ">>), Child("ForeName", <<"J", "o">>)>>)

Author_LiNotEqual ==
    Elem(ValidEqual("N"), <<Child("LastName", <<"L", "i">>), Child("ForeName", <<"J">>)>>)

Rows == {Row_Li, Row_Re}

ProbeRows == {Row_Li, Row_Re, Row_ONeil}

SummaryNames == {name_LiJ, name_LiJA, name_LiK, name_WuK, name_ReA, name_ReAL, name_L}

AuthorElements ==
    {Author_Li, Author_LiEqual, Author_LiNotEqual, Author_Wu, Author_WuEqual,
     Author_Re, Author_Collective, Author_NoText, Author_Blank}

\* the sequences over S of length lo..hi
SeqsOf(S, lo, hi) == UNION {[1..n -> S] : n \in lo..hi}

\* the records of the literature database: [pmid, summary, abstract]
Paper_101 ==
    [pmid |-> "101",
     summary |-> [uid |-> "101",
                  articleids |-> <<[idtype |-> "pubmed", value |-> "101"]>>,
                  authors |-> <<[name |-> name_LiJA], [name |-> name_WuK]>>,
                  pubtype |-> <<"Journal Article">>,
                  source |-> "Nature"],
     abstract |-> <<Author_Li, Author_Wu, Author_Re>>]

Paper_102 ==
    [pmid |-> "102",
     summary |-> [uid |-> "102",
                  articleids |-> <<[idtype |-> "pubmed", value |-> "102"]>>,
                  authors |-> <<[name |-> name_WuK], [name |-> name_LiJ]>>,
                  pubtype |-> <<"Journal Article", "Review">>,
                  source |-> "Cell"],
     abstract |-> <<Author_Wu, Author_LiEqual>>]

Paper_103 ==
    [pmid |-> "103",
     summary |-> [uid |-> "103",
                  articleids |-> <<[idtype |-> "pubmed", value |-> "103"]>>,
                  authors |-> <<[name |-> name_ReA], [name |-> name_LiJ]>>,
                  pubtype |-> <<"Journal Article">>,
                  source |-> "Cell"],
     abstract |-> <<Author_Collective, Author_LiEqual, Author_Wu>>]

PaperPool == {Paper_101, Paper_102, Paper_103}

(***************************************************************************)
(* config.py and the module constants.                                     *)
(***************************************************************************)
TOO_MANY_PAPERS == 50

WITH_INITIAL == TRUE

\* int() on one decimal digit
DigitValue(c) ==
    CASE c = "0" -> 0
      [] c = "1" -> 1
      [] c = "2" -> 2
      [] c = "5" -> 5

RECURSIVE int(_)
\* int() on the decimal text of a count
int(s) ==
    IF Len(s) = 1 THEN DigitValue(s[1])
    ELSE 10 * int(SubSeq(s, 1, Len(s) - 1)) + DigitValue(s[Len(s)])

\* the counts the search reports, as the text of the JSON answer
Counts == {<<"0">>, <<"1">>, <<"5", "0">>, <<"5", "1">>}

Min(x, y) == IF x < y THEN x ELSE y

\* the sequences of distinct records of the pool
DistinctPapers(n) ==
    {ps \in [1..n -> PaperPool] : \A i, j \in 1..n : i # j => ps[i] # ps[j]}

\* what ESearch can answer: a count and the result set it caches under the
\* WebEnv / query_key it hands out (at most MaxPapers records of it are
\* followed here)
SearchAnswers ==
    {[count |-> c, papers |-> ps] :
        c \in Counts, ps \in UNION {DistinctPapers(n) : n \in 0..MaxPapers}}

SearchAnswer(r) ==
    /\ r \in SearchAnswers
    /\ Len(r.papers) = Min(int(r.count), Min(MaxPapers, Cardinality(PaperPool)))

Pmids(papers) == [i \in 1..Len(papers) |-> papers[i].pmid]

(***************************************************************************)
(* State.                                                                  *)
(*                                                                         *)
(* A Python list that is mutated in place (first_author_journals) is an    *)
(* object of the heap: heap[r] is the content of the list with reference   *)
(* r, and a dictionary holds the reference.  Dictionaries are functions    *)
(* from keys to values.                                                    *)
(***************************************************************************)
VARIABLES
    infile,               \* main: the roster read from the CSV
    row,                  \* main: position of the for loop over the roster
    trainee_stats,        \* main: the list of stats dictionaries
    paper_content,        \* main: the list of summary records
    a,                    \* main: the current AuthorSearch object
    k,                    \* assess_trainee: position of the loop over pmids
    EMPTY_TRAINEE_STATS,  \* the module-level template dictionary
    heap,                 \* the list objects
    webenv,               \* the result set the service caches for the search
    requests,             \* the requests sent so far: <<row, endpoint>>
    files,                \* the CSV files written
    pc,                   \* the statement main is at
    probe                 \* a single call of an is_first_author method

vars ==
    <<infile, row, trainee_stats, paper_content, a, k, EMPTY_TRAINEE_STATS,
      heap, webenv, requests, files, pc, probe>>

\* d[key] = value
SetKey(d, key, value) == (key :> value) @@ d

\* the empty dictionary
EmptyDict == [x \in {} |-> 0]

\* the template of lines 26-33; its list is the object with reference 1
InitialTemplate ==
    [research_papers |-> 0,
     first_author_research_papers |-> 0,
     first_author_journals |-> 1,
     reviews |-> 0,
     first_author_reviews |-> 0]

\* copy.copy(d): the copy holds the same list object
shallowcopy(d, h) == [dict |-> d, heap |-> h]

\* copy.deepcopy(d): the list the dictionary holds is copied to a new object
deepcopy(d, h) ==
    [dict |-> [d EXCEPT !["first_author_journals"] = Len(h) + 1],
     heap |-> Append(h, h[d["first_author_journals"]])]

\* no AuthorSearch object yet
NoSearch ==
    [trainee |-> <<>>, trainee_stats |-> EmptyDict, abstracts |-> EmptyDict,
     summaries |-> EmptyDict, paper_content |-> <<>>, pmids |-> <<>>,
     search_results |-> EmptyDict]

ProbeIdle == [pc |-> "idle"]

\* the state main starts from, for a given roster
MainInit(roster) ==
    /\ infile = roster
    /\ row = 1
    /\ trainee_stats = <<>>
    /\ paper_content = <<>>
    /\ a = NoSearch
    /\ k = 0
    /\ EMPTY_TRAINEE_STATS = InitialTemplate
    /\ heap = <<<<>>>>
    /\ webenv = <<>>
    /\ requests = <<>>
    /\ files = {}

Init ==
    /\ \E roster \in SeqsOf(Rows, 0, MaxRows) : MainInit(roster)
    /\ pc = "next_row"
    /\ probe = ProbeIdle

(***************************************************************************)
(* main, lines 355-356: the next row, and AuthorSearch.__init__.           *)
(***************************************************************************)
Construct ==
    /\ pc = "next_row"
    /\ row <= Len(infile)
    /\ LET c == deepcopy(EMPTY_TRAINEE_STATS, heap)
       IN  /\ heap' = c.heap
           /\ a' = [NoSearch EXCEPT
                      !.trainee_stats = c.dict,
                      !.trainee = format_name(infile[row].LastName,
                                              infile[row].FirstName, WITH_INITIAL)]
           \* line 122: assert self.trainee_stats['first_author_journals'] == []
           /\ pc' = IF c.heap[c.dict["first_author_journals"]] = <<>>
                    THEN "search" ELSE "crashed"
    /\ UNCHANGED <<infile, row, trainee_stats, paper_content, k,
                   EMPTY_TRAINEE_STATS, webenv, requests, files, probe>>

(***************************************************************************)
(* assess_trainee, lines 207-212: search() and the two entries it stores.  *)
(***************************************************************************)
Search ==
    /\ pc = "search"
    /\ \E r \in SearchAnswers :
          /\ SearchAnswer(r)
          /\ webenv' = r.papers
          /\ LET results == [count |-> r.count, idlist |-> Pmids(r.papers)]
                 stats1 == SetKey(a.trainee_stats, "paper_count", results.count)
                 stats2 == SetKey(stats1, "pmids", results.idlist)
             IN  a' = [a EXCEPT !.search_results = results, !.trainee_stats = stats2]
    /\ requests' = Append(requests, <<row, "esearch">>)
    /\ pc' = "searched"
    /\ UNCHANGED <<infile, row, trainee_stats, paper_content, k,
                   EMPTY_TRAINEE_STATS, heap, files, probe>>

\* the literal test in line 215 without the conversion
IsZeroRaw(paper_count) == paper_count = <<>>

\* line 215
IsZero(paper_count) == int(paper_count) = 0

\* a ceiling that is off by one
TooManyOffByOne(paper_count) == int(paper_count) > TOO_MANY_PAPERS + 1

\* line 221
TooMany(paper_count) == int(paper_count) > TOO_MANY_PAPERS

\* lines 215-217
ZeroResults ==
    /\ pc = "searched"
    /\ IsZero(a.trainee_stats["paper_count"])
    /\ a' = [a EXCEPT !.trainee_stats =
                SetKey(@, "error", "Search returned zero results")]
    /\ pc' = "return"
    /\ UNCHANGED <<infile, row, trainee_stats, paper_content, k,
                   EMPTY_TRAINEE_STATS, heap, webenv, requests, files, probe>>

\* lines 221-223
TooManyResults ==
    /\ pc = "searched"
    /\ ~IsZero(a.trainee_stats["paper_count"])
    /\ TooMany(a.trainee_stats["paper_count"])
    /\ a' = [a EXCEPT !.trainee_stats =
                SetKey(@, "error", "Search returned too many results")]
    /\ pc' = "return"
    /\ UNCHANGED <<infile, row, trainee_stats, paper_content, k,
                   EMPTY_TRAINEE_STATS, heap, webenv, requests, files, probe>>

\* line 225, fetch_summaries (lines 180-190): the summaries of the cached set
FetchSummaries ==
    /\ pc = "searched"
    /\ ~IsZero(a.trainee_stats["paper_count"])
    /\ ~TooMany(a.trainee_stats["paper_count"])
    /\ LET uids == Pmids(webenv)
           summaries_json ==
               [u \in {uids[i] : i \in 1..Len(uids)} |->
                   (CHOOSE p \in PaperPool : p.pmid = u).summary]
       IN  a' = [a EXCEPT !.pmids = uids, !.summaries = summaries_json]
    /\ requests' = Append(requests, <<row, "esummary">>)
    /\ pc' = "fetch_abstracts"
    /\ UNCHANGED <<infile, row, trainee_stats, paper_content, k,
                   EMPTY_TRAINEE_STATS, heap, webenv, files, probe>>

\* line 226, fetch_abstracts (lines 192-204): the full records of the set
FetchAbstracts ==
    /\ pc = "fetch_abstracts"
    /\ a' = [a EXCEPT !.abstracts =
                [u \in {webenv[i].pmid : i \in 1..Len(webenv)} |->
                    (CHOOSE p \in PaperPool : p.pmid = u).abstract]]
    /\ requests' = Append(requests, <<row, "efetch">>)
    /\ k' = 1
    /\ pc' = "score"
    /\ UNCHANGED <<infile, row, trainee_stats, paper_content,
                   EMPTY_TRAINEE_STATS, heap, webenv, files, probe>>

\* lines 231-232
first_author(this_summary, this_abstract, trainee) ==
    \/ PaperSummary_is_first_author(this_summary, trainee)
    \/ PaperAbstract_is_first_author(this_abstract, trainee)

\* d[key] += 1
Increment(d, key) == [d EXCEPT ![key] = @ + 1]

\* lines 233-243 with the tests of lines 235 and 239 lost
scoreUnconditional(stats, h, this_summary, is_first) ==
    IF PaperSummary_is_review(this_summary)
    THEN [dict |-> Increment(Increment(stats, "reviews"), "first_author_reviews"),
          heap |-> h]
    ELSE [dict |-> Increment(Increment(stats, "research_papers"),
                             "first_author_research_papers"),
          heap |-> [h EXCEPT ![stats["first_author_journals"]] =
                       Append(@, PaperSummary_journal_title(this_summary))]]

\* lines 233-243 with the append of line 241 outside the test of line 239
scoreAppendAlways(stats, h, this_summary, is_first) ==
    IF PaperSummary_is_review(this_summary)
    THEN [dict |-> IF is_first
                   THEN Increment(Increment(stats, "reviews"), "first_author_reviews")
                   ELSE Increment(stats, "reviews"),
          heap |-> h]
    ELSE [dict |-> IF is_first
                   THEN Increment(Increment(stats, "research_papers"),
                                  "first_author_research_papers")
                   ELSE Increment(stats, "research_papers"),
          heap |-> [h EXCEPT ![stats["first_author_journals"]] =
                       Append(@, PaperSummary_journal_title(this_summary))]]

\* lines 233-243: the counters and the journal list after one publication
score(stats, h, this_summary, is_first) ==
    IF PaperSummary_is_review(this_summary)
    THEN [dict |-> IF is_first
                   THEN Increment(Increment(stats, "reviews"), "first_author_reviews")
                   ELSE Increment(stats, "reviews"),
          heap |-> h]
    ELSE IF is_first
         THEN [dict |-> Increment(Increment(stats, "research_papers"),
                                  "first_author_research_papers"),
               heap |-> [h EXCEPT ![stats["first_author_journals"]] =
                            Append(@, PaperSummary_journal_title(this_summary))]]
         ELSE [dict |-> Increment(stats, "research_papers"), heap |-> h]

\* lines 228-246: one turn of the loop over self.pmids
ScorePaper ==
    /\ pc = "score"
    /\ k <= Len(a.pmids)
    /\ LET pmid == a.pmids[k]
           this_summary == a.summaries[pmid]
           this_abstract == a.abstracts[pmid]
           is_first == first_author(this_summary, this_abstract, a.trainee)
           scored == score(a.trainee_stats, heap, this_summary, is_first)
       IN  /\ a' = [a EXCEPT !.trainee_stats = scored.dict,
                             !.paper_content = Append(@, this_summary)]
           /\ heap' = scored.heap
    /\ k' = k + 1
    /\ UNCHANGED <<infile, row, trainee_stats, paper_content,
                   EMPTY_TRAINEE_STATS, webenv, requests, files, pc, probe>>

\* line 248, reached when the loop over self.pmids is exhausted
EndScore ==
    /\ pc = "score"
    /\ k > Len(a.pmids)
    /\ pc' = "return"
    /\ UNCHANGED <<infile, row, trainee_stats, paper_content, a, k,
                   EMPTY_TRAINEE_STATS, heap, webenv, requests, files, probe>>

\* main, lines 357-358: the returned stats and the object's paper_content
Collect ==
    /\ pc = "return"
    /\ trainee_stats' = Append(trainee_stats, a.trainee_stats)
    /\ paper_content' = paper_content \o a.paper_content
    /\ row' = row + 1
    /\ pc' = "next_row"
    /\ UNCHANGED <<infile, a, k, EMPTY_TRAINEE_STATS, heap, webenv, requests,
                   files, probe>>

\* main, lines 360-365: the roster is exhausted; the stats table is written
ExportStats ==
    /\ pc = "next_row"
    /\ row > Len(infile)
    /\ files' = files \cup {"trainee_stats.csv"}
    /\ pc' = "export_papers"
    /\ UNCHANGED <<infile, row, trainee_stats, paper_content, a, k,
                   EMPTY_TRAINEE_STATS, heap, webenv, requests, probe>>

\* the columns of pd.DataFrame(paper_content): the keys of its records, none
\* for an empty list
Columns(content) == UNION {DOMAIN content[i] : i \in 1..Len(content)}

\* main, lines 368-373: pc['articleids'] raises KeyError when the frame has
\* no such column
ExportPapers ==
    /\ pc = "export_papers"
    /\ IF "articleids" \in Columns(paper_content)
       THEN /\ files' = files \cup {"paper_content.csv"}
            /\ pc' = "done"
       ELSE /\ files' = files
            /\ pc' = "crashed"
    /\ UNCHANGED <<infile, row, trainee_stats, paper_content, a, k,
                   EMPTY_TRAINEE_STATS, heap, webenv, requests, probe>>

(***************************************************************************)
(* One call of an is_first_author method on its own, on any trainee name   *)
(* format_name produces and any record built from the pools.               *)
(***************************************************************************)
TraineeNames ==
    {format_name(r.LastName, r.FirstName, WITH_INITIAL) : r \in ProbeRows}

SummaryInputs ==
    {[uid |-> "0", articleids |-> <<>>, authors |-> [i \in 1..Len(ns) |-> [name |-> ns[i]]],
      pubtype |-> <<"Journal Article">>, source |-> "Nature"] :
        ns \in SeqsOf(SummaryNames, 1, MaxSummaryAuthors)}

AbstractInputs == SeqsOf(AuthorElements, 0, MaxAuthors)

ProbeInit ==
    \/ \E t \in TraineeNames, d \in SummaryInputs :
          probe = [pc |-> "input", kind |-> "summary", author |-> t, data |-> d,
                   result |-> FALSE]
    \/ \E t \in TraineeNames, d \in AbstractInputs :
          probe = [pc |-> "input", kind |-> "abstract", author |-> t, data |-> d,
                   result |-> FALSE]

InitMatch ==
    /\ MainInit(<<>>)
    /\ pc = "idle"
    /\ ProbeInit

\* this_summary.is_first_author(self.trainee)
CallSummaryIsFirstAuthor ==
    /\ probe.pc = "input"
    /\ probe.kind = "summary"
    /\ probe' = [probe EXCEPT
                   !.pc = "done",
                   !.result = PaperSummary_is_first_author(probe.data, probe.author)]
    /\ UNCHANGED <<infile, row, trainee_stats, paper_content, a, k,
                   EMPTY_TRAINEE_STATS, heap, webenv, requests, files, pc>>

\* this_abstract.is_first_author(self.trainee)
CallAbstractIsFirstAuthor ==
    /\ probe.pc = "input"
    /\ probe.kind = "abstract"
    /\ probe' = [probe EXCEPT
                   !.pc = "done",
                   !.result = PaperAbstract_is_first_author(probe.data, probe.author)]
    /\ UNCHANGED <<infile, row, trainee_stats, paper_content, a, k,
                   EMPTY_TRAINEE_STATS, heap, webenv, requests, files, pc>>

NextMatch ==
    \/ CallSummaryIsFirstAuthor
    \/ CallAbstractIsFirstAuthor

SpecMatch == InitMatch /\ [][NextMatch]_vars

Next ==
    \/ Construct
    \/ Search
    \/ ZeroResults
    \/ TooManyResults
    \/ FetchSummaries
    \/ FetchAbstracts
    \/ ScorePaper
    \/ EndScore
    \/ Collect
    \/ ExportStats
    \/ ExportPapers

Spec == Init /\ [][Next]_vars

(***************************************************************************)
(* Vocabulary of the properties.                                           *)
(***************************************************************************)
\* the rows assessed so far, and the stats, trainee and position of each;
\* the row being assessed counts once its search has been answered
Searched(i) ==
    \/ i \in 1..Len(trainee_stats)
    \/ i = row /\ pc \in {"searched", "fetch_abstracts", "score", "return"}

Returned(i) ==
    \/ i \in 1..Len(trainee_stats)
    \/ i = row /\ pc = "return"

StatsOf(i) == IF i \in 1..Len(trainee_stats) THEN trainee_stats[i] ELSE a.trainee_stats

HasError(stats) == "error" \in DOMAIN stats

CountersAreZero(stats) ==
    /\ stats["research_papers"] = 0
    /\ stats["first_author_research_papers"] = 0
    /\ stats["reviews"] = 0
    /\ stats["first_author_reviews"] = 0

JournalsOf(stats) == heap[stats["first_author_journals"]]

Fetched(i) ==
    \E n \in 1..Len(requests) : requests[n] \in {<<i, "esummary">>, <<i, "efetch">>}

RECURSIVE SumTo(_, _)
SumTo(f(_), n) == IF n = 0 THEN 0 ELSE f(n) + SumTo(f, n - 1)

\* the entries a collected row has put in main's paper_content
Contribution(i) ==
    IF HasError(trainee_stats[i]) THEN 0 ELSE Len(trainee_stats[i]["pmids"])

\* C1 as stated: a search that counts zero results ends with paper_count 0
\* and the error tag "no results", fetches nothing and contributes nothing
\* to the paper-content export.
C1_ZeroResultsAsStated ==
    \A i \in 1..Len(infile) :
        (Returned(i) /\ int(StatsOf(i)["paper_count"]) = 0) =>
            /\ HasError(StatsOf(i))
            /\ StatsOf(i)["error"] = "no results"
            /\ ~Fetched(i)

\* C1 as amended: a search that counts zero results ends with paper_count
\* holding that count, the error tag "Search returned zero results" and all
\* counters at zero; no summary or full-record fetch is issued for the row,
\* and the row adds no entry to the paper-content export.
C1_ZeroResults ==
    /\ (pc = "return" /\ int(a.search_results["count"]) = 0) =>
          /\ a.trainee_stats["paper_count"] = a.search_results["count"]
          /\ HasError(a.trainee_stats)
          /\ a.paper_content = <<>>
    /\ \A i \in 1..Len(infile) :
          (Returned(i) /\ int(StatsOf(i)["paper_count"]) = 0) =>
              /\ HasError(StatsOf(i))
              /\ StatsOf(i)["error"] = "Search returned zero results"
              /\ CountersAreZero(StatsOf(i))
              /\ ~Fetched(i)
    /\ Len(paper_content) = SumTo(Contribution, Len(trainee_stats))

\* C1: a zero-result row has been collected, and a later row has put
\* records in the export
C1_Witness ==
    /\ Len(trainee_stats) = 2
    /\ int(trainee_stats[1]["paper_count"]) = 0
    /\ Len(paper_content) = 2
    /\ pc = "done"

\* C2: a search that counts more results than TOO_MANY_PAPERS ends with an
\* error tag; no summary or full-record fetch is ever issued for that row,
\* and its counters and journal list keep their empty initial values.
C2_TooManyResults ==
    \A i \in 1..Len(infile) :
        (Searched(i) /\ int(StatsOf(i)["paper_count"]) > TOO_MANY_PAPERS) =>
            /\ Returned(i) => HasError(StatsOf(i))
            /\ ~Fetched(i)
            /\ CountersAreZero(StatsOf(i))
            /\ JournalsOf(StatsOf(i)) = <<>>

\* C2: a row whose search counted 51 results has been collected
C2_Witness ==
    /\ Len(trainee_stats) >= 1
    /\ int(trainee_stats[1]["paper_count"]) = TOO_MANY_PAPERS + 1
    /\ HasError(trainee_stats[1])
    /\ pc = "next_row"

\* 1 for TRUE, 0 for FALSE
Bit(b) == IF b THEN 1 ELSE 0

\* C3: scoring one publication adds exactly 1 to exactly one of reviews and
\* research_papers, and adds to the matching first-author counter 1 when
\* the summary test or the full-record test succeeds and 0 otherwise; the
\* other first-author counter stays.
C3_ScoreStep ==
    (pc = "score" /\ k' = k + 1) =>
        LET s == a.summaries[a.pmids[k]]
            flag == \/ PaperSummary_is_first_author(s, a.trainee)
                    \/ PaperAbstract_is_first_author(a.abstracts[a.pmids[k]], a.trainee)
            review == InList("Review", s.pubtype)
            old == a.trainee_stats
            new == a'.trainee_stats
        IN  /\ new["reviews"] = old["reviews"] + Bit(review)
            /\ new["research_papers"] = old["research_papers"] + Bit(~review)
            /\ new["first_author_reviews"] =
                   old["first_author_reviews"] + Bit(review /\ flag)
            /\ new["first_author_research_papers"] =
                   old["first_author_research_papers"] + Bit(~review /\ flag)

C3_ScoredOnce == [][C3_ScoreStep]_vars

\* C3: a research paper on which both tests succeed has just been scored
C3_Witness ==
    /\ pc = "score"
    /\ k = 2
    /\ PaperSummary_is_first_author(a.summaries[a.pmids[1]], a.trainee)
    /\ PaperAbstract_is_first_author(a.abstracts[a.pmids[1]], a.trainee)
    /\ a.trainee_stats["first_author_research_papers"] = 1
    /\ a.trainee_stats["research_papers"] = 1

RECURSIVE ExpectedJournals(_, _)
\* the titles of the first-authored non-review records among papers, in order
ExpectedJournals(papers, trainee) ==
    IF papers = <<>> THEN <<>>
    ELSE LET p == Head(papers)
             counted ==
                 /\ ~InList("Review", p.summary.pubtype)
                 /\ \/ PaperSummary_is_first_author(p.summary, trainee)
                    \/ PaperAbstract_is_first_author(p.abstract, trainee)
         IN  (IF counted THEN <<p.summary.source>> ELSE <<>>)
                 \o ExpectedJournals(Tail(papers), trainee)

\* C4: when a trainee has been scored, first_author_journals holds the
\* titles of the first-authored non-review publications, one each, in the
\* order they were scored, and nothing else; its length equals
\* first_author_research_papers (also for every collected row); a trainee
\* whose result is one first-authored non-review paper ends with
\* research_papers = 1, first_author_research_papers = 1 and the one title.
C4_FirstAuthorJournals ==
    /\ (pc = "return" /\ ~HasError(a.trainee_stats)) =>
          /\ JournalsOf(a.trainee_stats) = ExpectedJournals(webenv, a.trainee)
          /\ (Len(webenv) = 1 /\ ExpectedJournals(webenv, a.trainee) # <<>>) =>
                /\ a.trainee_stats["research_papers"] = 1
                /\ a.trainee_stats["first_author_research_papers"] = 1
                /\ JournalsOf(a.trainee_stats) = <<webenv[1].summary.source>>
    /\ \A i \in 1..Len(infile) :
          Returned(i) =>
              Len(JournalsOf(StatsOf(i))) = StatsOf(i)["first_author_research_papers"]

\* C4: a trainee scored with two first-authored research papers, the journal
\* titles in the order of scoring
C4_Witness ==
    /\ pc = "return"
    /\ a.pmids = <<"103", "101">>
    /\ JournalsOf(a.trainee_stats) = <<"Cell", "Nature">>

\* C4: a trainee scored on one paper, a first-authored research paper
C4_WitnessOnePaper ==
    /\ pc = "return"
    /\ a.pmids = <<"101">>
    /\ JournalsOf(a.trainee_stats) = <<"Nature">>

\* the list objects of the rows collected so far stay as they are
C7_OthersUntouched ==
    /\ EMPTY_TRAINEE_STATS' = EMPTY_TRAINEE_STATS
    /\ heap'[EMPTY_TRAINEE_STATS["first_author_journals"]] =
           heap[EMPTY_TRAINEE_STATS["first_author_journals"]]
    /\ \A i \in 1..Len(trainee_stats) :
          /\ trainee_stats'[i] = trainee_stats[i]
          /\ heap'[trainee_stats[i]["first_author_journals"]] =
                 heap[trainee_stats[i]["first_author_journals"]]

\* a freshly constructed AuthorSearch holds zero counters and an empty list,
\* and the template holds them at all times
C7_StartsEmpty ==
    /\ CountersAreZero(EMPTY_TRAINEE_STATS)
    /\ JournalsOf(EMPTY_TRAINEE_STATS) = <<>>
    /\ pc # "crashed" \/ files # {}
    /\ pc = "search" =>
          /\ CountersAreZero(a.trainee_stats)
          /\ JournalsOf(a.trainee_stats) = <<>>

\* C7: every trainee's stats start with all counters 0 and an empty
\* first_author_journals; no step changes the stats or the journal list of
\* a row collected earlier, nor the template EMPTY_TRAINEE_STATS.
C7_StatsIsolated == []C7_StartsEmpty /\ [][C7_OthersUntouched]_vars

\* C7: a second trainee is constructed after a first one ended with a
\* non-empty journal list
C7_Witness ==
    /\ Len(trainee_stats) = 1
    /\ JournalsOf(trainee_stats[1]) # <<>>
    /\ pc = "return"
    /\ JournalsOf(a.trainee_stats) # <<>>
    /\ JournalsOf(a.trainee_stats) # JournalsOf(trainee_stats[1])

\* C8: a row that ends with an error tag never aborts the run: the run does
\* not end in an exception after such a row, and a finished run holds one
\* stats record per roster row.
C8_ErrorRowsNeverFatal ==
    /\ pc = "crashed" => \A i \in 1..Len(trainee_stats) : ~HasError(trainee_stats[i])
    /\ pc = "done" => Len(trainee_stats) = Len(infile)

(***************************************************************************)
(* Vocabulary of the properties of the full-record test, stated on the     *)
(* Author elements of the record.                                          *)
(***************************************************************************)
\* the element has a LastName child with text
HasLastName(element) ==
    \E i \in 1..Len(element.children) :
        /\ element.children[i].tag = "LastName"
        /\ ~element.children[i].is_none
        /\ element.children[i].text # <<>>

\* the text of that child, surrounding whitespace removed
LastNameOf(element) ==
    LET i == CHOOSE j \in 1..Len(element.children) :
                 /\ element.children[j].tag = "LastName"
                 /\ ~element.children[j].is_none
                 /\ element.children[j].text # <<>>
    IN  Strip(element.children[i].text)

\* the positions of the record's authors that have a last name
Qualifying(data) == {i \in 1..Len(data) : HasLastName(data[i])}

\* those whose canonical last name occurs in the trainee's canonical name
MatchingPositions(data, author) ==
    {i \in Qualifying(data) :
        IsSubstring(flatten_name(LastNameOf(data[i])), flatten_name(author))}

HasEqualContribMarker(element) == "EqualContrib" \in DOMAIN element.attrib

AbstractProbeDone == probe.pc = "done" /\ probe.kind = "abstract"

\* C5: the full-record test answers FALSE whenever the number of authors
\* with a last name whose canonical last name is a substring of the
\* trainee's canonical name is 0 or more than 1, whatever their positions
\* and equal-contribution markers.
C5_AmbiguityIsFalse ==
    (AbstractProbeDone /\ Cardinality(MatchingPositions(probe.data, probe.author)) # 1)
        => probe.result = FALSE

\* C5: two authors match, the first listed one among them, one with a marker
C5_Witness ==
    /\ AbstractProbeDone
    /\ probe.data = <<Author_LiEqual, Author_Li>>
    /\ probe.author = <<"L", "i", " ", "J">>
    /\ probe.result = FALSE

\* C5: no author matches the trainee
C5_WitnessNoMatch ==
    /\ AbstractProbeDone
    /\ probe.data = <<Author_WuEqual, Author_Re>>
    /\ probe.author = <<"L", "i", " ", "J">>
    /\ probe.result = FALSE

\* C6: when exactly one author matches, the full-record test answers TRUE
\* iff that author is the first author of the record's author list (the
\* authors that have a last name) or carries an EqualContrib marker.
C6_FirstOrEqualContrib ==
    (AbstractProbeDone /\ Cardinality(MatchingPositions(probe.data, probe.author)) = 1)
        => LET m == CHOOSE i \in MatchingPositions(probe.data, probe.author) : TRUE
               first == \A j \in Qualifying(probe.data) : m <= j
           IN  probe.result = (first \/ HasEqualContribMarker(probe.data[m]))

\* C6: a later author matches and carries the marker
C6_Witness ==
    /\ AbstractProbeDone
    /\ probe.data = <<Author_Wu, Author_LiEqual>>
    /\ probe.author = <<"L", "i", " ", "J">>
    /\ probe.result = TRUE

\* C6: a later author matches and carries no marker
C6_WitnessLater ==
    /\ AbstractProbeDone
    /\ probe.data = <<Author_Wu, Author_Li>>
    /\ probe.author = <<"L", "i", " ", "J">>
    /\ probe.result = FALSE

\* C6: the first listed author matches
C6_WitnessFirst ==
    /\ AbstractProbeDone
    /\ probe.data = <<Author_Re, Author_Wu>>
    /\ probe.author = <<"R", "e_acute", " ", "A">>
    /\ probe.result = TRUE

\* C9: the summary test answers TRUE exactly when the first listed author's
\* name, cut to the length of the trainee name as given (not of its
\* canonical form), has the canonical form of the trainee name; the later
\* authors of the summary have no influence.
C9_SummaryFirstAuthor ==
    (probe.pc = "done" /\ probe.kind = "summary") =>
        LET name == probe.data.authors[1].name
            n == Len(probe.author)
            cut == [i \in 1..Min(n, Len(name)) |-> name[i]]
            only_first == [probe.data EXCEPT !.authors = <<probe.data.authors[1]>>]
        IN  /\ probe.result = names_match(cut, probe.author)
            /\ probe.result = PaperSummary_is_first_author(only_first, probe.author)

\* C9: the trainee name is longer than its canonical form, the first listed
\* author's name is longer than the trainee name, and a second author is
\* listed
C9_Witness ==
    /\ probe.pc = "done"
    /\ probe.kind = "summary"
    /\ probe.author = <<"L", "i", " ", "J">>
    /\ probe.data.authors = <<[name |-> name_LiJA], [name |-> name_WuK]>>
    /\ probe.result = TRUE

\* data without the Author elements that have no last name
RECURSIVE WithLastName(_)
WithLastName(data) ==
    IF data = <<>> THEN <<>>
    ELSE (IF HasLastName(Head(data)) THEN <<Head(data)>> ELSE <<>>)
             \o WithLastName(Tail(data))

\* C10: an Author element enters the author list iff it has a LastName
\* child with text; the elements that have none change nothing: the test
\* gives the record the answer it gives the record without them.
C10_NoLastNameIgnored ==
    AbstractProbeDone =>
        /\ Len(PaperAbstract_extract_authorship(probe.data))
               = Cardinality(Qualifying(probe.data))
        /\ probe.result =
               PaperAbstract_is_first_author(WithLastName(probe.data), probe.author)
        /\ probe.result =>
               \E m \in Qualifying(probe.data) :
                   MatchingPositions(probe.data, probe.author) = {m}

\* C10: an element without last-name text, carrying a marker, is listed
\* before the one author that matches
C10_Witness ==
    /\ AbstractProbeDone
    /\ probe.data = <<Author_NoText, Author_Li, Author_Wu>>
    /\ probe.author = <<"L", "i", " ", "J">>
    /\ probe.result = TRUE

====
